---- MODULE Spec2Model ----
(***************************************************************************)
(* The rent-escrow contract (contracts/rent-escrow/src/lib.rs), its test   *)
(* harness setup_test_env (testutils.rs) and the test scenarios that use   *)
(* it (test.rs).  Every scenario calls setup_test_env, which builds an     *)
(* Environment, and then works on the returned (Env, Address, Client).     *)
(* The host Environment is modelled by the part of its state the harness   *)
(* and the contract can reach: ledger sequence, mock-auth flag, contract   *)
(* registrations, contract storage and the address generator.              *)
(***************************************************************************)
EXTENDS Naturals, Sequences, FiniteSets

\* The scenarios of test.rs; each one calls setup_test_env once.
Scenarios == {"test_hello", "test_mock_environment"}

\* Symbol arguments handed to hello ("Dev" is the one test_hello passes).
Tokens == {"Dev", "Hello"}

\* Host-internal faults that Env::default or register_contract can raise.
Faults == {"HostError", "InternalError"}

\* Addresses a scenario generates on its Environment after setup returned.
MaxAddrs == 2

VARIABLES
    pc,       \* pc[s]: the line of setup_test_env / phase of the scenario s is at
    env,      \* env[s]: the Environment built by scenario s's setup_test_env call
    cid,      \* cid[s]: the identifier register_contract returned ({} before it)
    client,   \* client[s]: the RentContractClient ({} before it is built or after drop)
    user,     \* user[s]: the Address generated at testutils.rs:13
    triple,   \* triple[s]: what setup_test_env returned to the scenario
    steps,    \* steps[s]: the harness steps executed so far, in order
    raised,   \* raised[s]: the fault a harness step raised
    outcome,  \* outcome[s]: the failure the scenario (the caller) ends with
    addrs,    \* addrs[s]: Addresses the generation facility returned to s
    lastcall, \* lastcall[s]: the latest hello invocation of s
    rets,     \* rets[s]: <<argument, returned Symbol>> of every hello of s
    reads     \* reads[s]: values env.ledger().sequence() returned to s

vars == <<pc, env, cid, client, user, triple, steps, raised, outcome, addrs,
          lastcall, rets, reads>>

----------------------------------------------------------------------------
(* The host Environment as the harness consumes it *)

\* A slot in which no Environment has been constructed yet.
NoEnv ==
    [state |-> "unbuilt", sequence |-> 0, mock_auths |-> FALSE,
     contracts |-> {}, storage |-> {}, generator |-> 0]

\* Env::default(): isolated ledger state, sequence 0, nothing registered.
FreshEnv ==
    [state |-> "alive", sequence |-> 0, mock_auths |-> FALSE,
     contracts |-> {}, storage |-> {}, generator |-> 0]

\* An ambient singleton: constructing an Environment resets every slot.
Env_default_shared(envs, s) ==
    [t \in Scenarios |-> FreshEnv]

\* let env = Env::default(): a new Environment owned by scenario s alone.
Env_default(envs, s) ==
    [envs EXCEPT ![s] = FreshEnv]

\* env.mock_all_auths(): every later authorization check passes.
mock_all_auths(e) ==
    [e EXCEPT !.mock_auths = TRUE]

\* Address::generate(&env): the next address of the Environment's generator.
Address_generate(e) ==
    [env  |-> [e EXCEPT !.generator = @ + 1],
     addr |-> [kind |-> "Contract", hash |-> e.generator + 1]]

\* Registration that returns an identifier without installing the code.
register_contract_lost(e, code) ==
    [env |-> Address_generate(e).env, id |-> Address_generate(e).addr]

\* Registration that installs the code under two identifiers.
register_contract_twice(e, code) ==
    LET g == Address_generate(e)
        h == Address_generate(g.env)
    IN  [env |-> [h.env EXCEPT !.contracts =
                      @ \cup {[id |-> g.addr, code |-> code],
                              [id |-> h.addr, code |-> code]}],
         id  |-> g.addr]

\* env.register_contract(None, RentContract): the Environment assigns the
\* identifier and maps it to the contract's code.
register_contract(e, code) ==
    LET g == Address_generate(e)
    IN  [env |-> [g.env EXCEPT !.contracts =
                      @ \cup {[id |-> g.addr, code |-> code]}],
         id  |-> g.addr]

\* A client bound to another scenario's Environment.
RentContractClient_new_other(s, id) ==
    [env |-> CHOOSE t \in Scenarios : t # s, contract_id |-> id]

\* RentContractClient::new(&env, &contract_id).
RentContractClient_new(s, id) ==
    [env |-> s, contract_id |-> id]

\* env.ledger().sequence()
ledger_sequence(e) ==
    e.sequence

RECURSIVE Base32(_)
\* The base-32 digits of n, most significant first (at least one digit).
Base32(n) ==
    IF n < 32 THEN <<n>> ELSE Append(Base32(n \div 32), n % 32)

\* A string form whose buffer is never filled in.
to_string_empty(a) ==
    <<>>

\* Address::to_string(): the version character of the address kind followed
\* by the encoded payload.
to_string(a) ==
    <<IF a.kind = "Contract" THEN "C" ELSE "G">> \o Base32(a.hash)

----------------------------------------------------------------------------
(* The contract *)

\* hello that echoes its argument.
hello_echo(e, to) ==
    [ret |-> to, env |-> e, auths |-> {}, subcalls |-> {}]

\* hello that advances the ledger.
hello_bump(e, to) ==
    [ret |-> "Hello", env |-> [e EXCEPT !.sequence = @ + 1],
     auths |-> {}, subcalls |-> {}]

\* hello that records its argument in contract storage.
hello_store(e, to) ==
    [ret |-> "Hello", env |-> [e EXCEPT !.storage = @ \cup {to}],
     auths |-> {}, subcalls |-> {}]

\* RentContract::hello(_env, _to): returns symbol_short!("Hello"); neither
\* parameter is used, no authorization is required, nothing else is called.
hello(e, to) ==
    [ret |-> "Hello", env |-> e, auths |-> {}, subcalls |-> {}]

\* client.hello(&to): dispatch through the Environment to the contract
\* registered under the client's identifier.
invoke_contract(e, id, to) ==
    IF e.state # "alive"
    THEN [ok |-> FALSE, err |-> "EnvDestroyed", ret |-> "", env |-> e,
          subcalls |-> {}]
    ELSE IF ~ \E r \in e.contracts : r.id = id /\ r.code = "RentContract"
    THEN [ok |-> FALSE, err |-> "MissingContract", ret |-> "", env |-> e,
          subcalls |-> {}]
    ELSE LET r == hello(e, to)
         IN  IF r.auths # {} /\ ~ e.mock_auths
             THEN [ok |-> FALSE, err |-> "Auth", ret |-> "", env |-> e,
                   subcalls |-> {}]
             ELSE [ok |-> TRUE, err |-> "", ret |-> r.ret, env |-> r.env,
                   subcalls |-> r.subcalls]

----------------------------------------------------------------------------
(* Control flow of the harness and of a scenario *)

\* A harness that catches the fault and runs the failed line again.
Unwind_retry(line) ==
    line

\* A fault in a harness step is a panic; nothing in setup_test_env catches it.
Unwind(line) ==
    "panicked"

\* A pattern whose first component is `_`: the Env is dropped at once.
LetPattern_discard(e) ==
    [e EXCEPT !.state = "destroyed"]

\* let (_env, _user, client) = setup_test_env(): the Env is bound to a
\* local and lives to the end of the scenario.
LetPattern(e) ==
    e

Init ==
    /\ pc = [s \in Scenarios |-> "l7"]
    /\ env = [s \in Scenarios |-> NoEnv]
    /\ cid = [s \in Scenarios |-> {}]
    /\ client = [s \in Scenarios |-> {}]
    /\ user = [s \in Scenarios |-> {}]
    /\ triple = [s \in Scenarios |-> {}]
    /\ steps = [s \in Scenarios |-> <<>>]
    /\ raised = [s \in Scenarios |-> {}]
    /\ outcome = [s \in Scenarios |-> {}]
    /\ addrs = [s \in Scenarios |-> {}]
    /\ lastcall = [s \in Scenarios |-> {}]
    /\ rets = [s \in Scenarios |-> {}]
    /\ reads = [s \in Scenarios |-> {}]

\* testutils.rs:7
SetupEnv(s) ==
    /\ pc[s] = "l7"
    /\ env' = Env_default(env, s)
    /\ steps' = [steps EXCEPT ![s] = Append(@, "Env::default")]
    /\ pc' = [pc EXCEPT ![s] = "l8"]
    /\ UNCHANGED <<cid, client, user, triple, raised, outcome, addrs, lastcall,
                   rets, reads>>

\* testutils.rs:7, the host fails to construct the Environment
SetupEnvFault(s) ==
    /\ pc[s] = "l7"
    /\ \E f \in Faults : raised' = [raised EXCEPT ![s] = {f}]
    /\ steps' = [steps EXCEPT ![s] = Append(@, "Env::default")]
    /\ pc' = [pc EXCEPT ![s] = Unwind("l7")]
    /\ UNCHANGED <<env, cid, client, user, triple, outcome, addrs, lastcall,
                   rets, reads>>

\* testutils.rs:8
SetupMock(s) ==
    /\ pc[s] = "l8"
    /\ env' = [env EXCEPT ![s] = mock_all_auths(@)]
    /\ steps' = [steps EXCEPT ![s] = Append(@, "mock_all_auths")]
    /\ pc' = [pc EXCEPT ![s] = "l10"]
    /\ UNCHANGED <<cid, client, user, triple, raised, outcome, addrs, lastcall,
                   rets, reads>>

\* testutils.rs:10
SetupRegister(s) ==
    /\ pc[s] = "l10"
    /\ env' = [env EXCEPT ![s] = register_contract(@, "RentContract").env]
    /\ cid' = [cid EXCEPT ![s] = {register_contract(env[s], "RentContract").id}]
    /\ steps' = [steps EXCEPT ![s] = Append(@, "register_contract")]
    /\ pc' = [pc EXCEPT ![s] = "l11"]
    /\ UNCHANGED <<client, user, triple, raised, outcome, addrs, lastcall,
                   rets, reads>>

\* testutils.rs:10, the host fails to register; the unwinding drops the
\* local env
SetupRegisterFault(s) ==
    /\ pc[s] = "l10"
    /\ \E f \in Faults : raised' = [raised EXCEPT ![s] = {f}]
    /\ steps' = [steps EXCEPT ![s] = Append(@, "register_contract")]
    /\ pc' = [pc EXCEPT ![s] = Unwind("l10")]
    /\ env' = [env EXCEPT ![s] =
                   IF Unwind("l10") = "panicked"
                   THEN [@ EXCEPT !.state = "destroyed"] ELSE @]
    /\ UNCHANGED <<cid, client, user, triple, outcome, addrs, lastcall, rets,
                   reads>>

\* testutils.rs:11
SetupClient(s) ==
    /\ pc[s] = "l11"
    /\ client' = [client EXCEPT ![s] =
                      {RentContractClient_new(s, id) : id \in cid[s]}]
    /\ steps' = [steps EXCEPT ![s] = Append(@, "RentContractClient::new")]
    /\ pc' = [pc EXCEPT ![s] = "l13"]
    /\ UNCHANGED <<env, cid, user, triple, raised, outcome, addrs, lastcall,
                   rets, reads>>

\* testutils.rs:13
SetupUser(s) ==
    /\ pc[s] = "l13"
    /\ env' = [env EXCEPT ![s] = Address_generate(@).env]
    /\ user' = [user EXCEPT ![s] = {Address_generate(env[s]).addr}]
    /\ addrs' = [addrs EXCEPT ![s] = @ \cup {Address_generate(env[s]).addr}]
    /\ steps' = [steps EXCEPT ![s] = Append(@, "Address::generate")]
    /\ pc' = [pc EXCEPT ![s] = "l15"]
    /\ UNCHANGED <<cid, client, triple, raised, outcome, lastcall, rets, reads>>

\* testutils.rs:15
SetupReturn(s) ==
    /\ pc[s] = "l15"
    /\ triple' = [triple EXCEPT ![s] =
                      {[env |-> s, user |-> u, client |-> c] :
                           u \in user[s], c \in client[s]}]
    /\ steps' = [steps EXCEPT ![s] = Append(@, "return")]
    /\ pc' = [pc EXCEPT ![s] = "ret"]
    /\ UNCHANGED <<env, cid, client, user, raised, outcome, addrs, lastcall,
                   rets, reads>>

\* test.rs:8 and test.rs:16: the scenario binds the returned triple
ScenarioLet(s) ==
    /\ pc[s] = "ret"
    /\ env' = [env EXCEPT ![s] = LetPattern(@)]
    /\ pc' = [pc EXCEPT ![s] = "body"]
    /\ UNCHANGED <<cid, client, user, triple, steps, raised, outcome, addrs,
                   lastcall, rets, reads>>

\* The panic leaves setup_test_env and fails the scenario that called it.
PropagatePanic(s) ==
    /\ pc[s] = "panicked"
    /\ outcome' = [outcome EXCEPT ![s] = raised[s]]
    /\ pc' = [pc EXCEPT ![s] = "failed"]
    /\ UNCHANGED <<env, cid, client, user, triple, steps, raised, addrs,
                   lastcall, rets, reads>>

\* test.rs:10: client.hello(&to), with `caller` the Address taken as the
\* caller context (hello itself takes no Address)
Hello(s, to, caller) ==
    /\ pc[s] = "body"
    /\ caller \in addrs[s]
    /\ \E c \in client[s] :
         LET r == invoke_contract(env[c.env], c.contract_id, to)
         IN  /\ env' = [env EXCEPT ![c.env] = r.env]
             /\ lastcall' = [lastcall EXCEPT ![s] =
                    {[to |-> to, caller |-> caller, ok |-> r.ok,
                      err |-> r.err, ret |-> r.ret,
                      alive |-> env[c.env].state = "alive",
                      mock |-> env[c.env].mock_auths,
                      subcalls |-> r.subcalls]}]
             /\ rets' = [rets EXCEPT ![s] =
                    IF r.ok THEN @ \cup {<<to, r.ret>>} ELSE @]
    /\ UNCHANGED <<pc, cid, client, user, triple, steps, raised, outcome, addrs,
                   reads>>

\* Address::generate(&env) on the returned Environment
Generate(s) ==
    /\ pc[s] = "body"
    /\ Cardinality(addrs[s]) < 1 + MaxAddrs
    /\ env' = [env EXCEPT ![s] = Address_generate(@).env]
    /\ addrs' = [addrs EXCEPT ![s] = @ \cup {Address_generate(env[s]).addr}]
    /\ UNCHANGED <<pc, cid, client, user, triple, steps, raised, outcome,
                   lastcall, rets, reads>>

\* test.rs:20: env.ledger().sequence()
ReadSequence(s) ==
    /\ pc[s] = "body"
    /\ reads' = [reads EXCEPT ![s] = @ \cup {ledger_sequence(env[s])}]
    /\ UNCHANGED <<pc, env, cid, client, user, triple, steps, raised, outcome,
                   addrs, lastcall, rets>>

\* test.rs:12 and test.rs:21: the scenario's locals go out of scope, in
\* reverse order of declaration: client, user, env
EndScope(s) ==
    /\ pc[s] = "body"
    /\ client' = [client EXCEPT ![s] = {}]
    /\ user' = [user EXCEPT ![s] = {}]
    /\ env' = [env EXCEPT ![s].state = "destroyed"]
    /\ pc' = [pc EXCEPT ![s] = "done"]
    /\ UNCHANGED <<cid, triple, steps, raised, outcome, addrs, lastcall,
                   rets, reads>>

Next ==
    \E s \in Scenarios :
        \/ SetupEnv(s)
        \/ SetupEnvFault(s)
        \/ SetupMock(s)
        \/ SetupRegister(s)
        \/ SetupRegisterFault(s)
        \/ SetupClient(s)
        \/ SetupUser(s)
        \/ SetupReturn(s)
        \/ ScenarioLet(s)
        \/ PropagatePanic(s)
        \/ \E to \in Tokens, caller \in addrs[s] : Hello(s, to, caller)
        \/ Generate(s)
        \/ ReadSequence(s)
        \/ EndScope(s)

Spec == Init /\ [][Next]_vars

----------------------------------------------------------------------------
(* Properties *)

\* The order of the statements of setup_test_env (testutils.rs:7-15).
SetupOrder ==
    <<"Env::default", "mock_all_auths", "register_contract",
      "RentContractClient::new", "Address::generate", "return">>

\* Everything that belongs to scenario s.
View(s) ==
    <<pc[s], env[s], cid[s], client[s], user[s], triple[s], steps[s],
      raised[s], outcome[s], addrs[s], lastcall[s], rets[s], reads[s]>>

\* C1: every hello invocation returns the Symbol "Hello" whatever argument
\* it was given, so any two invocations, of one scenario or of two, with the
\* same or with different arguments, return the same value.
C1_FixedResponse ==
    /\ \A s \in Scenarios : \A p \in rets[s] : p[2] = "Hello"
    /\ \A s, t \in Scenarios : \A p \in rets[s], q \in rets[t] : p[2] = q[2]
    /\ \A s \in Scenarios : \A c \in lastcall[s] : c.ok /\ c.ret = "Hello"

\* C1 witness: one scenario has invoked hello with two different arguments.
C1_Witness ==
    \E s \in Scenarios : \E p, q \in rets[s] : p[1] # q[1]

\* C2: the ledger sequence of every constructed Environment is 0 in every
\* reachable state, and every read of it returns 0.
C2_SequenceZero ==
    \A s \in Scenarios :
        /\ env[s].state # "unbuilt" => env[s].sequence = 0
        /\ reads[s] \subseteq {0}

\* C2 witness: an Environment on which hello was invoked, an address was
\* generated after setup and the sequence was read.
C2_Witness ==
    \E s \in Scenarios :
        /\ pc[s] = "body"
        /\ lastcall[s] # {}
        /\ Cardinality(addrs[s]) > 1
        /\ reads[s] # {}

\* C3: with mock authorization enabled, every hello invocation through the
\* returned client succeeds and returns "Hello", whichever generated Address
\* is the caller context; none ends in an authorization failure.
C3_AuthBypass ==
    \A s \in Scenarios : \A c \in lastcall[s] :
        c.mock => (c.ok /\ c.ret = "Hello" /\ c.err # "Auth")

\* C3 witness: a successful invocation whose caller context is an Address
\* generated after setup returned.
C3_Witness ==
    \E s \in Scenarios : \E c \in lastcall[s] :
        c.mock /\ c.ok /\ c.caller \notin user[s] /\ user[s] # {}

\* C4: each Environment starts with sequence 0 and has its own registration
\* once its setup has returned, and a step of one scenario leaves everything
\* of the other scenario unchanged.
C4_Independent ==
    /\ [](\A s \in Scenarios :
            pc[s] \in {"ret", "body"} =>
                /\ env[s].sequence = 0
                /\ \E r \in env[s].contracts : cid[s] = {r.id})
    /\ [][\A s, t \in Scenarios :
            (s # t /\ View(s)' # View(s)) => View(t)' = View(t)]_vars

\* C4 witness: both scenarios are past setup and their Environments differ.
C4_Witness ==
    /\ \A s \in Scenarios : pc[s] = "body" /\ lastcall[s] # {}
    /\ \E s, t \in Scenarios : env[s] # env[t]

C6_HelloNoSideEffects ==
    [][\A s \in Scenarios :
          lastcall'[s] # lastcall[s] =>
              /\ env' = env
              /\ UNCHANGED <<pc, cid, client, user, triple, steps, raised,
                             outcome, addrs, reads>>
              /\ \A c \in lastcall'[s] : c.subcalls = {}]_vars

\* C6 witness: a successful hello invocation has happened.
C6_Witness ==
    \E s \in Scenarios : \E c \in lastcall[s] : c.ok /\ c.to = "Dev"

\* C7: the harness steps run in the fixed order; mock authorization is on
\* at every hello invocation; the client is bound to the scenario's own
\* Environment and to the identifier registered in it, and so is the
\* returned triple.
C7_SetupOrder ==
    \A s \in Scenarios :
        /\ Len(steps[s]) <= Len(SetupOrder)
        /\ steps[s] = SubSeq(SetupOrder, 1, Len(steps[s]))
        /\ \A c \in lastcall[s] : c.mock
        /\ \A c \in client[s] :
              /\ c.env = s
              /\ cid[s] = {c.contract_id}
              /\ \E r \in env[s].contracts : r.id = c.contract_id
        /\ \A tr \in triple[s] :
              /\ tr.env = s
              /\ tr.client.env = s
              /\ cid[s] = {tr.client.contract_id}
        /\ pc[s] \in {"ret", "body"} =>
              triple[s] # {} /\ steps[s] = SetupOrder /\ env[s].mock_auths

\* C7 witness: setup has returned and hello was invoked through the client.
C7_Witness ==
    \E s \in Scenarios :
        pc[s] = "body" /\ triple[s] # {} /\ lastcall[s] # {}

\* C8: every hello invocation happens while the Environment the client is
\* bound to is alive, and a client never outlives that Environment.
C8_ClientNotUsedAfterDestroy ==
    \A s \in Scenarios :
        /\ \A c \in lastcall[s] : c.alive
        /\ \A c \in client[s] : env[c.env].state = "alive"

\* C8 witness: a scenario that invoked hello has ended and its Environment
\* is destroyed.
C8_Witness ==
    \E s \in Scenarios :
        pc[s] = "done" /\ lastcall[s] # {} /\ env[s].state = "destroyed"

\* C9: once Env::default or register_contract has raised a fault, the
\* failed step is the last harness step and ran once, no triple is returned,
\* no client or user exists, and the caller ends with exactly that fault.
C9_FailFast ==
    \A s \in Scenarios :
        raised[s] # {} =>
            /\ pc[s] \in {"panicked", "failed"}
            /\ triple[s] = {} /\ client[s] = {} /\ user[s] = {}
            /\ steps[s] \in {<<"Env::default">>,
                             <<"Env::default", "mock_all_auths",
                               "register_contract">>}
            /\ env[s].state # "alive"
            /\ lastcall[s] = {}
            /\ pc[s] = "failed" => outcome[s] = raised[s]

\* C9 witness: one scenario failed constructing the Environment, the other
\* failed registering the contract, and both failures reached the caller.
C9_Witness ==
    \E s, t \in Scenarios :
        /\ pc[s] = "failed" /\ steps[s] = <<"Env::default">>
        /\ pc[t] = "failed" /\ Len(steps[t]) = 3
        /\ outcome[s] # {} /\ outcome[t] # {}

\* C10: an Environment holds at most one registration of the contract,
\* exactly one once setup has completed, and nothing after setup adds,
\* removes or replaces a registration.
C10_RegistrationOnce ==
    /\ [](\A s \in Scenarios :
            /\ Cardinality(env[s].contracts) <= 1
            /\ pc[s] \in {"ret", "body", "done"} =>
                  Cardinality(env[s].contracts) = 1)
    /\ [][\A s \in Scenarios :
            pc[s] \in {"ret", "body", "done"} =>
                env'[s].contracts = env[s].contracts]_vars

\* C10 witness: after setup the scenario invoked hello, generated an
\* address and read the sequence, and the registration is still the one.
C10_Witness ==
    \E s \in Scenarios :
        /\ pc[s] = "body"
        /\ lastcall[s] # {} /\ Cardinality(addrs[s]) > 1 /\ reads[s] # {}
        /\ Cardinality(env[s].contracts) = 1

====
